---- MODULE Spec2Model ----
(***************************************************************************)
(* A model of txwinrm/krb5.py: the krb5.conf store (Config), the kdc       *)
(* merge (Config.add_kdc), the includedir registration                     *)
(* (Config.add_includedir, KlistProcessProtocol) and the kinit workflow    *)
(* (kinit, KinitProcessProtocol).                                          *)
(*                                                                         *)
(* Text is modelled at the level the code inspects it.  A kdc string is a  *)
(* sequence of comma separated tokens, a token is a sequence of symbols    *)
(* (a prefix character, a blank, or a host name).  A file is a sequence of *)
(* lines, a line the sequence of its whitespace separated words.  Process  *)
(* output is a sequence of chunks, a chunk a sequence of text fragments.   *)
(***************************************************************************)
EXTENDS Integers, Sequences, FiniteSets, TLC

VARIABLES
    realms,         \* Config.realms: realm -> set of kdcs (a defaultdict(set))
    admin_servers,  \* Config.admin_servers: realm -> admin server (a dict)
    includedirs,    \* Config.includedirs
    file,           \* the content of the file at Config.path, or NoFile
    op,             \* the last add_trusted_realm call and what it did
    nops,           \* number of add_trusted_realm calls made so far
    installed,      \* which of the programs klist and kinit os.path.isfile finds
    calls,          \* the kinit() calls: their arguments, position and protocols
    environ,        \* os.environ: variable name -> path
    ccnames,        \* what the ccname() calls made so far returned, by username
    kinit_merges    \* the store as Config() loaded it, and the add_kdc calls
                    \* the kinit() calls made since, in the order they ran

vars ==
    <<realms, admin_servers, includedirs, file, op, nops, installed, calls,
      environ, ccnames, kinit_merges>>

(***************************************************************************)
(* Bounds of the model.                                                    *)
(***************************************************************************)
MaxDeltaLen == 2    \* tokens in one kdc string
MaxOps == 2         \* add_trusted_realm calls in one behaviour
NumCalls == 2       \* kinit() calls in one behaviour
MaxKlistChunks == 2 \* chunks one klist process writes to its standard error
MaxWorkflowChunks == 1  \* chunks one kinit process writes, in the workflow
MaxKinitChunks == 3 \* chunks one kinit process writes, when run alone

(***************************************************************************)
(* Values.                                                                 *)
(***************************************************************************)
None == "<None>"        \* Python's None
NoFile == "<nofile>"    \* os.path.isfile(path) is false

Hosts == {"A", "B", "C"}
PrefixChars == {"+", "-", "*"}
Blank == " "

\* str.upper() and str.lower() on the realm names the model uses
Upper(s) ==
    CASE s = "r1" -> "R1"
      [] s = "r2" -> "R2"
      [] OTHER -> s

Lower(s) ==
    CASE s = "R1" -> "r1"
      [] s = "R2" -> "r2"
      [] OTHER -> s

\* os.path.join(os.path.dirname(self.path), 'config'), for the path
\* confdir/krb5.conf
PrivateDir == "confdir/config"

\* A path is the sequence of its components, '' is <<>>; os.path.join of
\* relative components is \o.
\* Config.get_path
get_path(env) ==
    IF "KRB5_CONFIG" \in DOMAIN env THEN env["KRB5_CONFIG"]
    ELSE IF "ZENHOME" \in DOMAIN env THEN env["ZENHOME"] \o <<"var", "krb5.conf">>
    ELSE IF "HOME" \in DOMAIN env THEN env["HOME"] \o <<".txwinrm", "krb5.conf">>
    ELSE <<"/etc", "krb5.conf">>

\* Config.get_ccname
get_ccname(env, username) ==
    IF "ZENHOME" \in DOMAIN env
        THEN env["ZENHOME"] \o <<"var", "krb5cc", username>>
    ELSE IF "HOME" \in DOMAIN env
        THEN env["HOME"] \o <<".txwinrm", "krb5cc", username>>
    ELSE <<>>

\* os.path.dirname
dirname(path) == IF path = <<>> THEN <<>> ELSE SubSeq(path, 1, Len(path) - 1)

\* the path of the store of the model: confdir/krb5.conf
ConfPath == <<"confdir", "krb5.conf">>

\* the username a sequence of parts is the split('@') of
UserString(username) ==
    IF Len(username) = 1 THEN username[1]
    ELSE IF Len(username) = 2 THEN username[1] \o "@" \o username[2]
    ELSE username[1] \o "@" \o username[2] \o "@" \o username[3]

EmptyDict == [x \in {} |-> {}]

Put(d, k, v) == [x \in (DOMAIN d) \cup {k} |-> IF x = k THEN v ELSE d[x]]

\* reading self.realms[realm] on a defaultdict(set): the value, and the dict
\* with the key created when it was missing
DefaultGet(d, k) == IF k \in DOMAIN d THEN d[k] ELSE {}
Touch(d, k) == IF k \in DOMAIN d THEN d ELSE Put(d, k, {})

RECURSIVE SetToSeq(_)
\* the order in which Python iterates a set or a dict: some fixed order
SetToSeq(S) ==
    IF S = {} THEN <<>>
    ELSE LET x == CHOOSE y \in S : TRUE
         IN  <<x>> \o SetToSeq(S \ {x})

RECURSIVE SeqToSet(_)
SeqToSet(s) == IF s = <<>> THEN {} ELSE {Head(s)} \cup SeqToSet(Tail(s))

\* the position of the first e in the sequence t, 0 when there is none
At(t, e) ==
    IF \E i \in 1..Len(t) : t[i] = e
    THEN CHOOSE i \in 1..Len(t) : t[i] = e /\ \A j \in 1..(i - 1) : t[j] # e
    ELSE 0

RECURSIVE Flatten(_)
\* ''.join(list of blocks), a block being a sequence of lines
Flatten(ss) == IF ss = <<>> THEN <<>> ELSE Head(ss) \o Flatten(Tail(ss))

(***************************************************************************)
(* The kdc string of add_kdc.                                              *)
(***************************************************************************)
RECURSIVE LStrip(_)
LStrip(t) == IF t # <<>> /\ Head(t) = Blank THEN LStrip(Tail(t)) ELSE t

RECURSIVE RStrip(_)
RStrip(t) ==
    IF t # <<>> /\ t[Len(t)] = Blank THEN RStrip(SubSeq(t, 1, Len(t) - 1)) ELSE t

\* str.strip()
Strip(t) == RStrip(LStrip(t))

RECURSIVE Join(_)
\* the string a sequence of symbols spells
Join(t) == IF t = <<>> THEN "" ELSE Head(t) \o Join(Tail(t))

\* the tokens a kdc string is made of: nothing, a blank, a host, a prefix
\* alone, a prefixed host, and prefixed hosts with blanks around them
DeltaTokens ==
    {<<>>, <<Blank>>, <<"+">>, <<"*">>}
    \cup {<<h>> : h \in Hosts}
    \cup {<<p, h>> : p \in PrefixChars, h \in Hosts}
    \cup {<<Blank, "+", Blank, "A", Blank>>}

\* kdc strings: kdcs.split(',') gives the tokens back
Deltas == UNION {[1..n -> DeltaTokens] : n \in 1..MaxDeltaLen}

\* not kdcs or not kdcs.strip(): only a string without a comma can be blank
IsBlankDelta(kdcs) == Len(kdcs) = 1 /\ Strip(kdcs[1]) = <<>>

\* one round of the for loop of add_kdc (lines 152-163)
ParseToken(acc, tok) ==
    LET kdc == Strip(tok)
        match == kdc # <<>> /\ Head(kdc) \in PrefixChars
        group2 == Join(Strip(Tail(kdc)))
    IN  IF match /\ Head(kdc) = "+"
            THEN [acc EXCEPT !.valid_kdcs = Append(@, group2)]
        ELSE IF match /\ Head(kdc) = "-"
            THEN [acc EXCEPT !.remove_kdcs = Append(@, group2)]
        ELSE IF match /\ Head(kdc) = "*"
            THEN [acc EXCEPT !.admin_server = group2,
                             !.valid_kdcs = Append(@, group2)]
        ELSE IF kdc # <<>>
            THEN [acc EXCEPT !.valid_kdcs = Append(@, Join(kdc))]
        ELSE acc

RECURSIVE ParseFrom(_, _)
ParseFrom(acc, toks) ==
    IF toks = <<>> THEN acc
    ELSE ParseFrom(ParseToken(acc, Head(toks)), Tail(toks))

\* lines 149-166 of add_kdc: the lists and the admin server of a kdc string
ParseDelta(kdcs) ==
    LET p == ParseFrom([valid_kdcs |-> <<>>, remove_kdcs |-> <<>>,
                        admin_server |-> None], kdcs)
    IN  IF (p.admin_server = None \/ p.admin_server = "") /\ p.valid_kdcs # <<>>
        THEN [p EXCEPT !.admin_server = p.valid_kdcs[1]]
        ELSE p

(***************************************************************************)
(* The text of krb5.conf.                                                  *)
(***************************************************************************)
\* '{}'.format(x) as words: None prints as the word None, '' as no word
Words(x) == IF x = None THEN <<"None">> ELSE IF x = "" THEN <<>> ELSE <<x>>

\* a KDC_TEMPLATE without the blanks around the equals sign
KdcLine_NoBlanks(kdc) == <<"kdc=">> \o Words(kdc)

\* KDC_TEMPLATE
KdcLine(kdc) == <<"kdc", "=">> \o Words(kdc)

\* REALM_TEMPLATE
RealmBlock(realm, kdcseq, admin_server) ==
    << <<realm, "=", "{">> >>
    \o [i \in 1..Len(kdcseq) |-> KdcLine(kdcseq[i])]
    \o << <<"admin_server", "=">> \o Words(admin_server), <<"}">> >>

\* DOMAIN_REALM_TEMPLATE
DomainRealmBlock(domain, realm) ==
    << <<"." \o domain, "=", realm>>, <<domain, "=", realm>> >>

\* INCLUDEDIR_TEMPLATE
IncludedirLine(includedir) == <<"includedir", includedir>>

\* KRB5_CONF_TEMPLATE
Krb5Conf(includedir_lines, realms_lines, domain_realm_lines) ==
    << <<"#", "This", "file", "is", "managed", "by", "the", "txwinrm",
         "python", "module.">>,
       <<"#", "NOTE:", "Any", "changes", "to", "the", "logging,",
         "libdefaults,", "domain_realm#", "sections", "of", "this", "file",
         "will", "be", "overwritten.">>,
       <<"#">>,
       <<>> >>
    \o includedir_lines
    \o << <<>>,
          <<"[logging]">>,
          <<"default", "=", "FILE:/var/log/krb5libs.log">>,
          <<"kdc", "=", "FILE:/var/log/krb5kdc.log">>,
          <<"admin_server", "=", "FILE:/var/log/kadmind.log">>,
          <<>>,
          <<"[libdefaults]">>,
          <<"default_realm", "=", "EXAMPLE.COM">>,
          <<"dns_lookup_realm", "=", "false">>,
          <<"dns_lookup_kdc", "=", "false">>,
          <<"ticket_lifetime", "=", "24h">>,
          <<"renew_lifetime", "=", "7d">>,
          <<"forwardable", "=", "true">>,
          <<>>,
          <<"[realms]">> >>
    \o realms_lines
    \o << <<>>, <<"[domain_realm]">> >>
    \o domain_realm_lines

\* the realms save() writes: those with kdcs (lines 267-269)
SavedRealms(rs) == {r \in DOMAIN rs : rs[r] # {}}

\* save() raises KeyError at line 279 when a realm it writes has no entry
\* in admin_servers under its upper-cased name
SaveKeyError(rs, as) == \E r \in SavedRealms(rs) : Upper(r) \notin DOMAIN as

\* the text save() writes for the realms in the order rorder, the kdcs of
\* realm r in the order korder[r], and the includedirs in the order iorder
Render(rs, as, rorder, korder, iorder) ==
    Krb5Conf(
        [i \in 1..Len(iorder) |-> IncludedirLine(iorder[i])],
        Flatten([i \in 1..Len(rorder) |->
            RealmBlock(Upper(rorder[i]), korder[rorder[i]],
                       as[Upper(rorder[i])])]),
        Flatten([i \in 1..Len(rorder) |->
            DomainRealmBlock(Lower(rorder[i]), Upper(rorder[i]))]))

\* Config.save: st is the store, io tells whether open(path, 'w') succeeds.
\* The result is the store after the call and the exception raised, if any.
save(st, io) ==
    IF SaveKeyError(st.realms, st.admin_servers)
        THEN [st EXCEPT !.exc = "KeyError"]
    ELSE LET dirs == st.includedirs \cup {PrivateDir}
         IN  IF ~io
                 THEN [st EXCEPT !.includedirs = dirs, !.exc = "IOError"]
             ELSE [st EXCEPT
                      !.includedirs = dirs,
                      !.wrote = TRUE,
                      !.file = Render(st.realms, st.admin_servers,
                                  SetToSeq(SavedRealms(st.realms)),
                                  [r \in DOMAIN st.realms |-> SetToSeq(st.realms[r])],
                                  SetToSeq(dirs))]

\* str.startswith('[') on the first word of a line
StartsWithBracket(w) ==
    w \in {"[logging]", "[libdefaults]", "[realms]", "[domain_realm]"}

\* re.search(r'(\S+)\s+=\s+{', line): the position of the word matched by
\* the group, 0 when there is no match
RealmOpenAt(line) ==
    LET hits == {i \in 1..(Len(line) - 2) : line[i + 1] = "=" /\ line[i + 2] = "{"}
    IN  IF hits = {} THEN 0 ELSE CHOOSE i \in hits : \A j \in hits : i <= j

\* re.search(key + r'\s+=\s+(\S+)', line): the position of the word matched
\* by the group, 0 when there is no match
KeyValueAt(key, line) ==
    LET hits == {i \in 1..(Len(line) - 2) : line[i] = key /\ line[i + 1] = "="}
    IN  IF hits = {} THEN 0 ELSE 2 + CHOOSE i \in hits : \A j \in hits : i <= j

\* one round of the for loop of load (lines 231-257)
LoadLine(acc, line) ==
    IF line # <<>> /\ line[1] = "[realms]"
        THEN [acc EXCEPT !.in_realms_section = TRUE]
    ELSE IF line # <<>> /\ StartsWithBracket(line[1])
        THEN [acc EXCEPT !.in_realms_section = FALSE]
    ELSE IF line # <<>> /\ line[1] = "includedir"
        THEN IF Len(line) >= 2
                 THEN [acc EXCEPT !.includedirs = @ \cup {line[2]}]
                 ELSE acc
    ELSE IF acc.in_realms_section
        THEN IF line = <<>> THEN acc
             ELSE IF RealmOpenAt(line) # 0
                 THEN [acc EXCEPT !.in_realm = line[RealmOpenAt(line)]]
             ELSE IF acc.in_realm # None
                 THEN LET k == KeyValueAt("kdc", line)
                          a == KeyValueAt("admin_server", line)
                          r == acc.in_realm
                          ks == IF k # 0
                                THEN Put(acc.realms, r,
                                         DefaultGet(acc.realms, r) \cup {line[k]})
                                ELSE acc.realms
                          ads == IF a # 0
                                 THEN Put(acc.admin_servers, r, line[a])
                                 ELSE acc.admin_servers
                      IN  [acc EXCEPT !.realms = ks, !.admin_servers = ads]
             ELSE acc
    ELSE acc

RECURSIVE LoadFrom(_, _)
LoadFrom(acc, lines) ==
    IF lines = <<>> THEN acc
    ELSE LoadFrom(LoadLine(acc, Head(lines)), Tail(lines))

\* Config.load: the realms, admin servers and includedirs read from the file
load(f, dirs) ==
    IF f = NoFile
        THEN [realms |-> EmptyDict, admin_servers |-> EmptyDict,
              includedirs |-> dirs]
    ELSE LET acc == LoadFrom([realms |-> EmptyDict, admin_servers |-> EmptyDict,
                              includedirs |-> dirs, in_realms_section |-> FALSE,
                              in_realm |-> None], f)
         IN  [realms |-> acc.realms, admin_servers |-> acc.admin_servers,
              includedirs |-> acc.includedirs]

(***************************************************************************)
(* Config.add_kdc.                                                         *)
(***************************************************************************)
\* st is the store; the result is the store after the call, the exception
\* raised (None when it returns) and whether the file was written
add_kdc(st, realm, kdcs, io) ==
    IF IsBlankDelta(kdcs) THEN st
    ELSE
    LET p == ParseDelta(kdcs)
        valid == SeqToSet(p.valid_kdcs)
        remove == SeqToSet(p.remove_kdcs)
        cur == DefaultGet(st.realms, realm)
        touched == [st EXCEPT !.realms = Touch(st.realms, realm)]
        new_kdcs == (cur \ valid) \cup (valid \ cur)
        bad_kdcs == cur \cap remove
    IN  IF new_kdcs = {} /\ bad_kdcs = {}
            THEN IF realm \notin DOMAIN st.admin_servers
                     THEN [touched EXCEPT !.exc = "KeyError"]
                 ELSE IF p.admin_server = st.admin_servers[realm]
                     THEN touched
                 ELSE save([touched EXCEPT
                               !.realms[realm] = (cur \cup new_kdcs) \ bad_kdcs,
                               !.admin_servers =
                                   Put(st.admin_servers, realm, p.admin_server)],
                           io)
        ELSE save([touched EXCEPT
                      !.realms[realm] = (cur \cup new_kdcs) \ bad_kdcs,
                      !.admin_servers =
                          Put(st.admin_servers, realm, p.admin_server)],
                  io)

\* the store as a record, for the operators above
Store ==
    [realms |-> realms, admin_servers |-> admin_servers,
     includedirs |-> includedirs, file |-> file, exc |-> None, wrote |-> FALSE]

(***************************************************************************)
(* Process output.  A text is a sequence of fragments, '' is <<>>.         *)
(***************************************************************************)
\* sub in data
Contains(data, sub) ==
    \E i \in 1..(Len(data) - Len(sub) + 1) : SubSeq(data, i, i + Len(sub) - 1) = sub

\* 'Included profile file could not be read while initializing krb5'
KlistMarker ==
    <<"Included profile file could not be read", " while initializing krb5">>

\* 'Password for'
PromptMarker == <<"Password ", "for">>

\* 'Password expired'
ExpiredMarker == <<"Password ", "expired">>

Colon == ":"
Newline == "\n"

RECURSIVE FirstLine(_)
\* data.split('\n')[0]
FirstLine(data) ==
    IF data = <<>> \/ Head(data) = Newline THEN <<>>
    ELSE <<Head(data)>> \o FirstLine(Tail(data))

\* what klist may write to its standard error in one chunk
KlistChunks ==
    {KlistMarker,
     <<KlistMarker[1]>>,
     <<KlistMarker[2]>>,
     <<"klist: No credentials cache found">>}

\* what kinit may write to its standard output in one chunk
KinitOutChunks ==
    {<<"Password ", "for", " user@R1", Colon>>,
     <<"Password ", "for", " user@R1">>,
     <<"Password ">>,
     <<"for", " user@R1", Colon>>,
     <<Colon>>,
     <<Colon, " ", "Password ", "for">>,
     <<"Password ", "expired", Newline, "Enter new password", Colon>>,
     <<"Password ", "expired", ".  You must change it now.", Newline>>,
     <<"expired", Newline>>}

\* what kinit may write to its standard error in one chunk
KinitErrChunks == {<<"kinit: Preauthentication failed">>}

\* the chunks of a kinit process in the workflow
WorkflowOutChunks ==
    {<<"Password ", "for", " user@R1", Colon>>,
     <<"Password ", "expired", Newline, "Enter new password", Colon>>}

(***************************************************************************)
(* KlistProcessProtocol and KinitProcessProtocol.                          *)
(***************************************************************************)
\* KlistProcessProtocol.__init__; all is what the process wrote so far
FreshKlist == [error |-> <<>>, n |-> 0, all |-> <<>>]

\* KlistProcessProtocol.errReceived
klist_errReceived(kl, data) ==
    [kl EXCEPT !.error = IF Contains(data, KlistMarker) THEN data ELSE @,
               !.n = @ + 1,
               !.all = @ \o data]

\* KinitProcessProtocol.__init__; stdin counts the passwords written, killed
\* the KILL signals sent, expired holds the first line of every chunk of
\* standard output that had the expiry marker in it, all is what the
\* process wrote to its standard output so far, errs counts the chunks it
\* wrote to its standard error, and before is the accumulated data the last
\* write of the password answered
FreshKinit ==
    [data |-> <<>>, error |-> <<>>, stdin |-> 0, killed |-> 0, n |-> 0,
     expired |-> {}, all |-> <<>>, errs |-> 0, before |-> <<>>]

\* KinitProcessProtocol.errReceived
kinit_errReceived(ki, data) ==
    [ki EXCEPT !.error = @ \o data, !.n = @ + 1, !.errs = @ + 1]

\* an outReceived that looks for the prompt in the chunk, not in _data
kinit_outReceived_PerChunk(ki, data) ==
    LET acc == ki.data \o data
        seen == IF Contains(data, ExpiredMarker)
                THEN ki.expired \cup {FirstLine(data)} ELSE ki.expired
    IN  IF Contains(data, PromptMarker) /\ Contains(data, <<Colon>>)
            THEN [ki EXCEPT !.data = <<>>, !.stdin = @ + 1, !.n = @ + 1,
                            !.expired = seen, !.all = @ \o data,
                            !.before = acc]
        ELSE IF Contains(data, ExpiredMarker)
            THEN [ki EXCEPT !.data = acc, !.error = FirstLine(data),
                            !.killed = @ + 1, !.n = @ + 1, !.expired = seen,
                            !.all = @ \o data]
        ELSE [ki EXCEPT !.data = acc, !.n = @ + 1, !.expired = seen,
                        !.all = @ \o data]

\* KinitProcessProtocol.outReceived
kinit_outReceived(ki, data) ==
    LET acc == ki.data \o data
        seen == IF Contains(data, ExpiredMarker)
                THEN ki.expired \cup {FirstLine(data)} ELSE ki.expired
    IN  IF Contains(acc, PromptMarker) /\ Contains(acc, <<Colon>>)
            THEN [ki EXCEPT !.data = <<>>, !.stdin = @ + 1, !.n = @ + 1,
                            !.expired = seen, !.all = @ \o data,
                            !.before = acc]
        ELSE IF Contains(data, ExpiredMarker)
            THEN [ki EXCEPT !.data = acc, !.error = FirstLine(data),
                            !.killed = @ + 1, !.n = @ + 1, !.expired = seen,
                            !.all = @ \o data]
        ELSE [ki EXCEPT !.data = acc, !.n = @ + 1, !.expired = seen,
                        !.all = @ \o data]

(***************************************************************************)
(* Config.add_includedir and kinit.  w is the store and the record of the  *)
(* call; the operators give both back as the call leaves them when it      *)
(* next suspends or ends.                                                  *)
(***************************************************************************)
NoResult == [kind |-> "none", exc |-> None, error |-> <<>>]

\* a call not made yet
IdleCall ==
    [pc |-> "idle", username |-> <<>>, kdc |-> <<>>, includedir |-> None,
     result |-> NoResult, trace |-> <<>>, kl |-> FreshKlist, ki |-> FreshKinit,
     reg |-> [done |-> FALSE, emitted |-> FALSE, failed |-> FALSE,
              in_mem |-> FALSE, in_file |-> FALSE]]

\* the call ends with the exception e
Raise(cr, e) ==
    [cr EXCEPT !.pc = "done",
               !.result = [kind |-> "raised", exc |-> e, error |-> <<>>]]

\* user, realm = username.split('@') takes exactly two parts
ValidUsername_AtLeastTwo(username) == Len(username) >= 2

ValidUsername(username) == Len(username) = 2

\* the file has an includedir line for dir
InFile(f, dir) ==
    f # NoFile /\ \E i \in 1..Len(f) : f[i] = IncludedirLine(dir)

\* the yield of line 364 suspends the call while the klist protocol's
\* deferred has not fired
Suspended_Never(cr) == FALSE

Suspended(cr) == cr.pc = "klist"

\* lines 365-380 of kinit: the merge, then the spawn of kinit.  The
\* directory of a credential cache under ZENHOME or HOME can be made; with
\* '' for the cache, os.makedirs('') raises OSError (lines 367-370).
kinit_merge(w, io) ==
    LET st1 == add_kdc([w.st EXCEPT !.exc = None], Upper(w.cr.username[2]),
                       w.cr.kdc, io)
        cr1 == [w.cr EXCEPT !.trace = Append(@, "add_kdc")]
    IN  IF st1.exc # None
            THEN [st |-> st1, cr |-> Raise(cr1, st1.exc)]
        ELSE IF dirname(get_ccname(environ, UserString(w.cr.username))) = <<>>
            THEN [st |-> st1, cr |-> Raise(cr1, "OSError")]
        ELSE [st |-> st1,
              cr |-> [cr1 EXCEPT !.pc = "kinit",
                                 !.trace = Append(@, "spawn_kinit"),
                                 !.ki = FreshKinit]]

\* lines 108-128 of add_includedir: up to the yield.  spawns tells whether
\* reactor.spawnProcess starts a process; with no klist found it is called
\* with None for the program and may raise instead
add_includedir(w, io, spawns) ==
    IF w.cr.includedir \in w.st.includedirs
        THEN [w EXCEPT !.cr.trace = Append(@, "includedir_present")]
    ELSE LET st1 == save([w.st EXCEPT !.exc = None,
                                      !.includedirs = @ \cup {w.cr.includedir}],
                         io)
             cr1 == [w.cr EXCEPT !.trace = Append(@, "add_includedir")]
         IN  IF st1.exc # None
                 THEN [st |-> st1, cr |-> Raise(cr1, st1.exc)]
             ELSE IF ~spawns
                 THEN [st |-> st1, cr |-> Raise(cr1, "TypeError")]
             ELSE [st |-> st1,
                   cr |-> [cr1 EXCEPT !.pc = "klist",
                                      !.trace = Append(@, "spawn_klist"),
                                      !.kl = FreshKlist]]

\* lines 128-132 of add_includedir: from the yield on.  reg records whether
\* klist wrote the marker, whether the protocol fired its deferred with an
\* error, and whether the directory is in includedirs and in the file when
\* the call completes; the protocol is dropped
add_includedir_resume(w, io) ==
    LET dir == w.cr.includedir
        st1 == IF w.cr.kl.error # <<>>
               THEN save([w.st EXCEPT !.exc = None,
                                      !.includedirs = @ \ {dir}], io)
               ELSE [w.st EXCEPT !.exc = None]
        cr1 == [w.cr EXCEPT !.trace = Append(@, "klist_ended"),
                            !.pc = "resumed",
                            !.kl = FreshKlist,
                            !.reg = [done |-> TRUE,
                                     emitted |-> Contains(w.cr.kl.all, KlistMarker),
                                     failed |-> w.cr.kl.error # <<>>,
                                     in_mem |-> dir \in st1.includedirs,
                                     in_file |-> InFile(st1.file, dir)]]
    IN  IF st1.exc # None
            THEN [st |-> st1, cr |-> Raise(cr1, st1.exc)]
        ELSE [st |-> st1, cr |-> cr1]

\* lines 345-364 of kinit: up to the first yield
kinit(w, io, spawns) ==
    IF ~installed.kinit THEN [w EXCEPT !.cr = Raise(@, "Exception")]
    ELSE IF ~ValidUsername(w.cr.username)
        THEN [w EXCEPT !.cr = Raise(@, "Exception")]
    ELSE IF w.cr.includedir # None /\ w.cr.includedir # ""
        THEN LET w1 == add_includedir(w, io, spawns)
             IN  IF Suspended(w1.cr) \/ w1.cr.pc = "done" THEN w1
                 ELSE kinit_merge(w1, io)
    ELSE kinit_merge(w, io)

(***************************************************************************)
(* The module level singleton: config = Config().                          *)
(***************************************************************************)
\* the files a previous run of the program may have left at Config.path
InitFiles ==
    {NoFile,
     Render([r \in {"R1"} |-> {"A", "B"}], [r \in {"R1"} |-> "A"],
            <<"R1">>, [r \in {"R1"} |-> <<"A", "B">>], <<PrivateDir>>)}

NoOp ==
    [kind |-> "none", realm |-> "", kdcs |-> <<>>, pre_realms |-> EmptyDict,
     pre_admin_servers |-> EmptyDict, exc |-> None, wrote |-> FALSE,
     repeat |-> FALSE]

\* Config.__init__
ConfigInit ==
    \E f \in InitFiles :
        /\ file = f
        /\ realms = load(f, {}).realms
        /\ admin_servers = load(f, {}).admin_servers
        /\ includedirs = load(f, {}).includedirs

\* os.environ once Config.__init__ has set KRB5_CONFIG (line 104), for a
\* process started with the environment env
Environ(env) == Put(env, "KRB5_CONFIG", get_path(env))

\* the environment of the store of the model: KRB5_CONFIG and HOME are set
StoreEnv == [v \in {"KRB5_CONFIG", "HOME"} |->
                IF v = "HOME" THEN <<"/home/zenoss">> ELSE ConfPath]

\* a file written by hand: the realm R1 with a kdc and no admin_server
FileWithoutAdmin ==
    << <<"[realms]">>, <<"R1", "=", "{">>, <<"kdc", "=", "A">>, <<"}">> >>

\* no merge made by a kinit() call yet
Loaded ==
    [realms |-> realms, admin_servers |-> admin_servers, merges |-> <<>>]

InitStore ==
    /\ ConfigInit
    /\ op = NoOp
    /\ nops = 0
    /\ installed = [klist |-> TRUE, kinit |-> TRUE]
    /\ calls = [c \in 1..NumCalls |-> IdleCall]
    /\ environ = Environ(StoreEnv)
    /\ ccnames = EmptyDict
    /\ kinit_merges = Loaded

\* the realm names callers pass
RealmArgs == {"R1", "r2"}

\* add_trusted_realm(realm, kdc)
AddTrustedRealm(realm, kdc, io) ==
    /\ nops < MaxOps
    /\ \E trusted_realm \in {Upper(realm)} :
       \E res \in {add_kdc(Store, trusted_realm, kdc, io)} :
           /\ realms' = res.realms
           /\ admin_servers' = res.admin_servers
           /\ includedirs' = res.includedirs
           /\ file' = res.file
           /\ op' = [kind |-> "add_kdc", realm |-> trusted_realm, kdcs |-> kdc,
                     pre_realms |-> realms, pre_admin_servers |-> admin_servers,
                     exc |-> res.exc, wrote |-> res.wrote,
                     repeat |-> (op.kind = "add_kdc" /\ op.realm = trusted_realm
                                 /\ op.kdcs = kdc)]
    /\ nops' = nops + 1
    /\ UNCHANGED <<installed, calls, environ, ccnames, kinit_merges>>

\* the store alone, on a disk that can be written
NextStore ==
    \E realm \in RealmArgs, kdc \in Deltas : AddTrustedRealm(realm, kdc, TRUE)

SpecStore == InitStore /\ [][NextStore]_vars

\* the store loaded from the file written by hand
InitHandWritten ==
    /\ file = FileWithoutAdmin
    /\ realms = load(FileWithoutAdmin, {}).realms
    /\ admin_servers = load(FileWithoutAdmin, {}).admin_servers
    /\ includedirs = load(FileWithoutAdmin, {}).includedirs
    /\ op = NoOp
    /\ nops = 0
    /\ installed = [klist |-> TRUE, kinit |-> TRUE]
    /\ calls = [c \in 1..NumCalls |-> IdleCall]
    /\ environ = Environ(StoreEnv)
    /\ ccnames = EmptyDict
    /\ kinit_merges = Loaded

SpecHandWritten == InitHandWritten /\ [][NextStore]_vars

(***************************************************************************)
(* The kinit() calls and the processes they spawn.                         *)
(***************************************************************************)
Calls == 1..NumCalls

\* user@r1, and two strings that are not of that form
Usernames == {<<"user", "r1">>, <<"baduser">>, <<"user", "r1", "x">>}

\* the kdc strings passed to kinit(): A and -A
KinitDeltas == {<< <<"A">> >>, << <<"-", "A">> >>}

\* the includedir passed to kinit()
IncludedirArgs == {None, "/etc/krb5.d", PrivateDir}

\* the environments of the workflow: KRB5_CONFIG is set, HOME is or is not
WorkflowEnvs == {StoreEnv, [v \in {"KRB5_CONFIG"} |-> ConfPath]}

Init ==
    /\ ConfigInit
    /\ op = NoOp
    /\ nops = 0
    /\ installed \in [klist : BOOLEAN, kinit : BOOLEAN]
    /\ calls = [c \in Calls |-> IdleCall]
    /\ \E env \in WorkflowEnvs : environ = Environ(env)
    /\ ccnames = EmptyDict
    /\ kinit_merges = Loaded

\* the store and the call c leave an operator as w; a call that ran its
\* add_kdc (line 365) is appended to the merges
Leave(c, w) ==
    /\ realms' = w.st.realms
    /\ admin_servers' = w.st.admin_servers
    /\ includedirs' = w.st.includedirs
    /\ file' = w.st.file
    /\ calls' = [calls EXCEPT ![c] = w.cr]
    /\ kinit_merges' =
          IF At(w.cr.trace, "add_kdc") # 0 /\ At(calls[c].trace, "add_kdc") = 0
          THEN [kinit_merges EXCEPT
                   !.merges = Append(@, [realm |-> Upper(w.cr.username[2]),
                                         kdcs |-> w.cr.kdc])]
          ELSE kinit_merges
    /\ UNCHANGED <<op, nops, installed, environ, ccnames>>

\* kinit(username, password, kdc, includedir) is called
KinitStart(c, username, kdc, includedir, io, spawns) ==
    /\ calls[c].pc = "idle"
    /\ \E w \in {kinit([st |-> Store,
                        cr |-> [IdleCall EXCEPT !.username = username,
                                                !.kdc = kdc,
                                                !.includedir = includedir]],
                       io, spawns)} :
           Leave(c, w)

\* the klist process of call c writes data to its standard error
KlistErrReceived(c, data) ==
    /\ calls[c].pc = "klist"
    /\ calls[c].kl.n < MaxKlistChunks
    /\ calls' = [calls EXCEPT ![c].kl = klist_errReceived(@, data)]
    /\ UNCHANGED <<realms, admin_servers, includedirs, file, op, nops, installed,
                   environ, ccnames, kinit_merges>>

\* the klist process of call c ends: processEnded fires the deferred,
\* add_includedir resumes, and then kinit
KlistProcessEnded(c, io1, io2) ==
    /\ calls[c].pc = "klist"
    /\ \E w1 \in {add_includedir_resume([st |-> Store, cr |-> calls[c]], io1)} :
           IF w1.cr.pc = "done" THEN Leave(c, w1)
           ELSE \E w2 \in {kinit_merge(w1, io2)} : Leave(c, w2)

\* the kinit process of call c writes data to its standard output
KinitOutReceived(c, data) ==
    /\ calls[c].pc = "kinit"
    /\ calls' = [calls EXCEPT ![c].ki = kinit_outReceived(@, data)]
    /\ UNCHANGED <<realms, admin_servers, includedirs, file, op, nops, installed,
                   environ, ccnames, kinit_merges>>

\* the kinit process of call c writes data to its standard error
KinitErrReceived(c, data) ==
    /\ calls[c].pc = "kinit"
    /\ calls' = [calls EXCEPT ![c].ki = kinit_errReceived(@, data)]
    /\ UNCHANGED <<realms, admin_servers, includedirs, file, op, nops, installed,
                   environ, ccnames, kinit_merges>>

\* the kinit process of call c ends: processEnded fires the deferred and
\* kinit returns its result (lines 339 and 382-383)
KinitProcessEnded(c) ==
    /\ calls[c].pc = "kinit"
    /\ calls' = [calls EXCEPT
                    ![c].pc = "done",
                    ![c].result = [kind |-> "returned", exc |-> None,
                                   error |-> calls[c].ki.error]]
    /\ UNCHANGED <<realms, admin_servers, includedirs, file, op, nops, installed,
                   environ, ccnames, kinit_merges>>

\* concurrent kinit() calls in one reactor
Next ==
    \/ \E c \in Calls, username \in Usernames, kdc \in KinitDeltas,
          includedir \in IncludedirArgs, io \in BOOLEAN :
           \E spawns \in (IF installed.klist THEN {TRUE} ELSE BOOLEAN) :
               KinitStart(c, username, kdc, includedir, io, spawns)
    \/ \E c \in Calls, data \in KlistChunks : KlistErrReceived(c, data)
    \/ \E c \in Calls, io1 \in BOOLEAN, io2 \in BOOLEAN :
           KlistProcessEnded(c, io1, io2)
    \/ \E c \in Calls, data \in WorkflowOutChunks :
           calls[c].ki.n < MaxWorkflowChunks /\ KinitOutReceived(c, data)
    \/ \E c \in Calls : KinitProcessEnded(c)

Spec == Init /\ [][Next]_vars

\* one kinit process on its own: kinit('user@r1', password, ' ') has just
\* spawned it
InitKinit ==
    /\ \E f \in {NoFile} :
        /\ file = f
        /\ realms = load(f, {}).realms
        /\ admin_servers = load(f, {}).admin_servers
        /\ includedirs = load(f, {}).includedirs
    /\ op = NoOp
    /\ nops = 0
    /\ installed = [klist |-> TRUE, kinit |-> TRUE]
    /\ environ = Environ(StoreEnv)
    /\ ccnames = EmptyDict
    /\ kinit_merges = Loaded
    /\ calls = [c \in Calls |->
                  IF c = 1
                  THEN kinit([st |-> Store,
                              cr |-> [IdleCall EXCEPT
                                         !.username = <<"user", "r1">>,
                                         !.kdc = << <<Blank>> >>]],
                             TRUE, TRUE).cr
                  ELSE IdleCall]

NextKinit ==
    \/ \E data \in KinitOutChunks :
           calls[1].ki.n < MaxKinitChunks /\ KinitOutReceived(1, data)
    \/ \E data \in KinitErrChunks :
           calls[1].ki.n < MaxKinitChunks /\ KinitErrReceived(1, data)
    \/ KinitProcessEnded(1)

SpecKinit == InitKinit /\ [][NextKinit]_vars

(***************************************************************************)
(* The paths: Config() in some environment, then ccname() calls.           *)
(***************************************************************************)
\* the values the variables of the environment may have
EnvValues ==
    [v \in {"KRB5_CONFIG", "ZENHOME", "HOME"} |->
        CASE v = "KRB5_CONFIG" -> {<<"/custom", "krb5.conf">>}
          [] v = "ZENHOME" -> {<<"/opt/zenoss">>}
          [] v = "HOME" -> {<<"/home/zenoss">>, <<"/root">>}]

\* the environments the process may be started in: each variable is set
\* or unset
Envs ==
    UNION {{e \in [S -> UNION {EnvValues[v] : v \in S}] :
               \A v \in S : e[v] \in EnvValues[v]} :
           S \in SUBSET {"KRB5_CONFIG", "ZENHOME", "HOME"}}

\* the usernames ccname() is called with
CcUsernames == {"alice@r1", "bob@r1", "alice@r2", "carol@r1"}

InitEnv ==
    /\ \E env \in Envs : environ = Environ(env)
    /\ file = NoFile
    /\ realms = load(NoFile, {}).realms
    /\ admin_servers = load(NoFile, {}).admin_servers
    /\ includedirs = load(NoFile, {}).includedirs
    /\ op = NoOp
    /\ nops = 0
    /\ installed = [klist |-> TRUE, kinit |-> TRUE]
    /\ calls = [c \in Calls |-> IdleCall]
    /\ ccnames = EmptyDict
    /\ kinit_merges = Loaded

\* ccname(username)
Ccname(username) ==
    /\ ccnames' = Put(ccnames, username, get_ccname(environ, username))
    /\ UNCHANGED <<realms, admin_servers, includedirs, file, op, nops,
                   installed, calls, environ, kinit_merges>>

NextEnv == \E username \in CcUsernames : Ccname(username)

SpecEnv == InitEnv /\ [][NextEnv]_vars

(***************************************************************************)
(* Claims about the merge and the codec, under SpecStore.                  *)
(***************************************************************************)
\* the last call was a merge that got past the blank check of line 146
Merged == op.kind = "add_kdc" /\ ~IsBlankDelta(op.kdcs)

\* the hosts of the +host, host and *host tokens, and of the -host tokens
Additions(kdcs) == SeqToSet(ParseDelta(kdcs).valid_kdcs)
Removals(kdcs) == SeqToSet(ParseDelta(kdcs).remove_kdcs)

\* some token of the kdc string has the prefix *
HasStar(kdcs) ==
    \E i \in 1..Len(kdcs) : Strip(kdcs[i]) # <<>> /\ Head(Strip(kdcs[i])) = "*"

\* the admin server of a realm, None when there is none
AdminOf(d, r) == IF r \in DOMAIN d THEN d[r] ELSE None

\* C1: after a merge with a non-empty delta the realm's KDC set is
\* (current \cup additions) \ removals.
C1_MergeSetAlgebra ==
    Merged =>
        DefaultGet(realms, op.realm) =
            (DefaultGet(op.pre_realms, op.realm) \cup Additions(op.kdcs))
                \ Removals(op.kdcs)

\* C2: a merge whose delta has no * token, on a realm that has an admin
\* server the delta does not remove, leaves the admin server unchanged.
C2_AdminRetained ==
    (/\ Merged
     /\ ~HasStar(op.kdcs)
     /\ AdminOf(op.pre_admin_servers, op.realm) # None
     /\ AdminOf(op.pre_admin_servers, op.realm) \notin Removals(op.kdcs))
    => AdminOf(admin_servers, op.realm) = AdminOf(op.pre_admin_servers, op.realm)

\* C3: every realm with a non-empty KDC set has an admin server that is a
\* member of that set, after any sequence of merges.
C3_AdminInKdcs ==
    \A r \in DOMAIN realms :
        realms[r] # {} => AdminOf(admin_servers, r) \in realms[r]

\* C4: a merge repeated with the same realm and delta leaves the
\* configuration as the first call left it and writes no file.
C4_Idempotent ==
    op.repeat =>
        /\ realms = op.pre_realms
        /\ admin_servers = op.pre_admin_servers
        /\ ~op.wrote

RECURSIVE Perms(_)
\* the orders in which a set can be iterated
Perms(S) ==
    IF S = {} THEN {<<>>}
    ELSE UNION {{<<x>> \o p : p \in Perms(S \ {x})} : x \in S}

\* the orders in which the kdcs of the realms of rs can be written
KdcOrders(rs) ==
    {f \in [DOMAIN rs -> UNION {Perms(rs[r]) : r \in DOMAIN rs}] :
        \A r \in DOMAIN rs : f[r] \in Perms(rs[r])}

\* realm names are upper-case and the admin server of every realm with
\* kdcs is one of them
WellFormedClaimed(rs, as) ==
    /\ \A r \in DOMAIN rs \cup DOMAIN as : Upper(r) = r
    /\ \A r \in DOMAIN rs : rs[r] # {} => AdminOf(as, r) \in rs[r]

\* and besides no kdc is the empty string
WellFormed(rs, as) ==
    /\ WellFormedClaimed(rs, as)
    /\ \A r \in DOMAIN rs : "" \notin rs[r]

\* C5 as stated: loading what save writes gives the same set of realms,
\* the same KDC set and the same admin server for each realm.
C5_RoundTripAllRealms ==
    WellFormedClaimed(realms, admin_servers) =>
        \A l \in {load(Render(realms, admin_servers,
                               SetToSeq(SavedRealms(realms)),
                               [r \in DOMAIN realms |-> SetToSeq(realms[r])],
                               SetToSeq(includedirs)), {})} :
            /\ DOMAIN l.realms = DOMAIN realms
            /\ \A r \in DOMAIN realms :
                  /\ l.realms[r] = realms[r]
                  /\ AdminOf(l.admin_servers, r) = AdminOf(admin_servers, r)

\* C5, amended: when moreover no kdc is the empty string, loading what
\* save writes, in whatever order it writes the realms and the kdcs, gives
\* exactly the realms that have kdcs, each with its KDC set and its admin
\* server; the [logging] and [libdefaults] lines contribute nothing.
C5_RoundTrip ==
    WellFormed(realms, admin_servers) =>
        \A rorder \in Perms(SavedRealms(realms)) :
            \A korder \in KdcOrders(realms) :
                \A l \in {load(Render(realms, admin_servers, rorder, korder,
                                       SetToSeq(includedirs)), {})} :
                    /\ DOMAIN l.realms = SavedRealms(realms)
                    /\ DOMAIN l.admin_servers = SavedRealms(realms)
                    /\ \A r \in SavedRealms(realms) :
                          /\ l.realms[r] = realms[r]
                          /\ l.admin_servers[r] = admin_servers[r]

\* a saved, well-formed configuration of two realms with kdcs, one of them
\* with several
C5_Witness ==
    /\ WellFormed(realms, admin_servers)
    /\ op.wrote
    /\ Cardinality(SavedRealms(realms)) = 2
    /\ \E r \in DOMAIN realms : Cardinality(realms[r]) >= 2

(***************************************************************************)
(* More claims about the store, under SpecStore and SpecHandWritten.       *)
(***************************************************************************)
\* C13: once Config() has loaded the store, whether or not there was a
\* file and before any save, includedirs has the private directory beside
\* the path of the file in it.
C13_PrivateDirIncluded == PrivateDir \in includedirs

RECURSIVE StarHosts(_)
\* the hosts of the *host tokens of a kdc string, in the order of the string
StarHosts(kdcs) ==
    IF kdcs = <<>> THEN <<>>
    ELSE LET kdc == Strip(Head(kdcs))
         IN  IF kdc # <<>> /\ Head(kdc) = "*" /\ Strip(Tail(kdc)) # <<>>
             THEN <<Join(Strip(Tail(kdc)))>> \o StarHosts(Tail(kdcs))
             ELSE StarHosts(Tail(kdcs))

\* C16: after a merge whose delta has a *host token the admin server of
\* the realm is that host (the last one when there are several); after a
\* merge whose delta has no * token and names hosts to add, on a realm
\* without an admin server, the admin server is the first of these hosts.
C16_AdminDesignation ==
    Merged =>
        /\ StarHosts(op.kdcs) # <<>> =>
              AdminOf(admin_servers, op.realm) =
                  StarHosts(op.kdcs)[Len(StarHosts(op.kdcs))]
        /\ (/\ ~HasStar(op.kdcs)
            /\ AdminOf(op.pre_admin_servers, op.realm) = None
            /\ ParseDelta(op.kdcs).valid_kdcs # <<>>) =>
              AdminOf(admin_servers, op.realm) = ParseDelta(op.kdcs).valid_kdcs[1]

\* C20: a merge with a non-empty delta completes without raising, whatever
\* the realm and the delta.
C20_MergeNeverRaises == Merged => op.exc = None

(***************************************************************************)
(* Claims about the workflow, under Spec.                                  *)
(***************************************************************************)
\* no call is suspended: every call made has returned to its caller
Quiescent == \A c \in Calls : calls[c].pc \in {"idle", "done"}

\* C6: whenever the operations have returned to their callers, normally
\* or with a failure, the KDC sets, admin servers and include directories
\* in memory are those the file encodes.
C6_MemoryEqualsDisk ==
    Quiescent =>
        \A l \in {load(file, {})} :
            /\ \A r \in DOMAIN realms \cup DOMAIN l.realms :
                  DefaultGet(realms, r) = DefaultGet(l.realms, r)
            /\ \A r \in DOMAIN admin_servers \cup DOMAIN l.admin_servers :
                  AdminOf(admin_servers, r) = AdminOf(l.admin_servers, r)
            /\ includedirs = l.includedirs

\* C7: when the klist run of add_includedir wrote the marker, the
\* directory is neither in includedirs nor on an includedir line of the
\* file once add_includedir completes.
C7_RejectedDirRemoved ==
    \A c \in Calls :
        (calls[c].reg.done /\ calls[c].reg.emitted) =>
            (~calls[c].reg.in_mem /\ ~calls[c].reg.in_file)

\* C8: in a call given an include directory, the registration and its
\* validation are over before the merge of the kdcs, and the merge is over
\* before kinit is spawned; the merge and the spawn do not happen while the
\* validation is pending.
C8_StepsInOrder ==
    \A c \in Calls :
        \A t \in {calls[c].trace} :
            /\ (At(t, "add_kdc") # 0 /\ calls[c].includedir # None) =>
                  \/ (At(t, "includedir_present") # 0
                      /\ At(t, "includedir_present") < At(t, "add_kdc"))
                  \/ (At(t, "add_includedir") # 0
                      /\ At(t, "add_includedir") < At(t, "spawn_klist")
                      /\ At(t, "spawn_klist") < At(t, "klist_ended")
                      /\ At(t, "klist_ended") < At(t, "add_kdc"))
            /\ At(t, "spawn_kinit") # 0 =>
                  (At(t, "add_kdc") # 0 /\ At(t, "add_kdc") < At(t, "spawn_kinit"))
            /\ calls[c].pc = "klist" =>
                  (At(t, "add_kdc") = 0 /\ At(t, "spawn_kinit") = 0)

\* a call given a new include directory has registered it, waited for
\* klist, merged and spawned kinit
C8_Witness ==
    \E c \in Calls :
        /\ calls[c].includedir = "/etc/krb5.d"
        /\ calls[c].trace = <<"add_includedir", "spawn_klist", "klist_ended",
                              "add_kdc", "spawn_kinit">>

\* the username has no @ or more than one
Malformed(username) == Len(username) # 2

\* C9: a call with a malformed username fails with the exception of the
\* precondition, having registered nothing, merged nothing and spawned no
\* process.
C9_MalformedUsername ==
    \A c \in Calls :
        (calls[c].pc # "idle" /\ Malformed(calls[c].username)) =>
            /\ calls[c].pc = "done"
            /\ calls[c].result.kind = "raised"
            /\ calls[c].result.exc = "Exception"
            /\ calls[c].trace = <<>>

\* with kinit installed, a call without @ and a call with two @ have failed
C9_Witness ==
    /\ installed.kinit
    /\ \E c \in Calls : calls[c].pc = "done" /\ Len(calls[c].username) = 1
    /\ \E c \in Calls : calls[c].pc = "done" /\ Len(calls[c].username) = 3

\* C14: with no klist program found, a call that registers a new include
\* directory spawns no klist process and gets no error from the attempt,
\* and the directory stays in includedirs.
C14_MissingKlistSkips ==
    \A c \in Calls :
        (~installed.klist /\ At(calls[c].trace, "add_includedir") # 0) =>
            /\ At(calls[c].trace, "spawn_klist") = 0
            /\ calls[c].result.exc # "TypeError"
            /\ calls[c].includedir \in includedirs

RECURSIVE ApplyMerges(_, _)
\* the merges ms applied to the store st one after another
ApplyMerges(st, ms) ==
    IF ms = <<>> THEN st
    ELSE ApplyMerges(add_kdc([st EXCEPT !.exc = None], Head(ms).realm,
                             Head(ms).kdcs, TRUE),
                     Tail(ms))

\* the realms and admin servers of a and of b are the same configuration:
\* the same KDC set for every realm, the same admin server for every realm
\* that has kdcs
SameConfig(a, b) ==
    \A r \in DOMAIN a.realms \cup DOMAIN b.realms :
        /\ DefaultGet(a.realms, r) = DefaultGet(b.realms, r)
        /\ DefaultGet(a.realms, r) # {} =>
              AdminOf(a.admin_servers, r) = AdminOf(b.admin_servers, r)

\* C15: once the calls made have passed their merge, the configuration in
\* memory and the one in the file are what the merges give when applied
\* one after another, in the order they ran, to the configuration loaded.
C15_SerializedMerges ==
    (/\ kinit_merges.merges # <<>>
     /\ \A c \in Calls : calls[c].pc # "klist") =>
        \A seq \in {ApplyMerges([realms |-> kinit_merges.realms,
                                  admin_servers |-> kinit_merges.admin_servers,
                                  includedirs |-> {}, file |-> NoFile,
                                  exc |-> None, wrote |-> FALSE],
                                 kinit_merges.merges)} :
            /\ SameConfig(Store, seq)
            /\ SameConfig(load(file, {}), seq)

\* C18: when a call given an include directory runs its merge (and then
\* spawns kinit), no other call is suspended on the validation of that
\* directory.
C18_MergeAfterValidation ==
    [][\A c \in Calls :
          (/\ At(calls[c].trace, "add_kdc") = 0
           /\ At(calls'[c].trace, "add_kdc") # 0
           /\ calls'[c].includedir # None) =>
              \A d \in Calls \ {c} :
                  ~(calls[d].pc = "klist"
                    /\ calls[d].includedir = calls'[c].includedir)]_vars

\* C19: add_includedir gets an error from the klist protocol exactly when
\* all that klist wrote to its standard error, put together, has the
\* marker in it.
C19_ChunkingIrrelevant ==
    \A c \in Calls :
        calls[c].reg.done => (calls[c].reg.failed <=> calls[c].reg.emitted)

(***************************************************************************)
(* Claims about the kinit protocol, under SpecKinit.                       *)
(***************************************************************************)
\* C10: when a chunk of standard output had the expiry marker in it, the
\* process was killed and the result reported is an error that is exactly
\* the first line of that chunk.
C10_ExpiryReported ==
    \A c \in Calls :
        (/\ calls[c].pc = "done"
         /\ calls[c].result.kind = "returned"
         /\ calls[c].ki.expired # {}) =>
            /\ calls[c].ki.killed >= 1
            /\ calls[c].result.error # <<>>
            /\ calls[c].result.error \in calls[c].ki.expired

\* data has the prompt marker in it and a colon after the marker
PromptTerminated(data) ==
    \E i \in 1..(Len(data) - Len(PromptMarker) + 1), j \in 1..Len(data) :
        /\ SubSeq(data, i, i + Len(PromptMarker) - 1) = PromptMarker
        /\ j >= i + Len(PromptMarker)
        /\ data[j] = Colon

\* C17: a chunk of standard output makes the protocol write the password
\* only when the data accumulated since the last reset has the prompt
\* marker followed by a colon in it; the password is then written once and
\* the accumulated data is empty.
C17_PromptRule ==
    [][\A c \in Calls :
          (calls[c].pc = "kinit" /\ calls'[c].ki.stdin # calls[c].ki.stdin) =>
              /\ calls'[c].ki.stdin = calls[c].ki.stdin + 1
              /\ PromptTerminated(calls'[c].ki.before)
              /\ calls'[c].ki.data = <<>>]_vars

\* 'Password for user@R1:'
Prompt == <<"Password ", "for", " user@R1", Colon>>

\* C11: when all that kinit wrote to its standard output is the password
\* prompt, in one chunk or in several, and it wrote nothing to its standard
\* error, the password was written once, when the prompt was complete, and
\* the call reports success when the process has ended.
C11_PromptDriven ==
    \A c \in Calls :
        (/\ calls[c].pc \in {"kinit", "done"}
         /\ calls[c].ki.all = Prompt
         /\ calls[c].ki.errs = 0) =>
            /\ calls[c].ki.stdin = 1
            /\ calls[c].ki.before = Prompt
            /\ calls[c].pc = "done" =>
                  /\ calls[c].result.kind = "returned"
                  /\ calls[c].result.error = <<>>

\* the prompt came in two chunks, was answered, and the process has ended
C11_Witness ==
    \E c \in Calls :
        /\ calls[c].pc = "done"
        /\ calls[c].ki.all = Prompt
        /\ calls[c].ki.n = 2
        /\ calls[c].ki.errs = 0
        /\ calls[c].ki.stdin = 1
        /\ calls[c].result.error = <<>>

(***************************************************************************)
(* Claims about the paths, under SpecEnv.                                  *)
(***************************************************************************)
\* the directories a private root can be: under the directory of the
\* override, under the product home, under the user home, under /etc
PrivateRoots ==
    {dirname(p) \o <<"krb5cc">> : p \in EnvValues["KRB5_CONFIG"]}
    \cup {z \o <<"var", "krb5cc">> : z \in EnvValues["ZENHOME"]}
    \cup {h \o <<".txwinrm", "krb5cc">> : h \in EnvValues["HOME"]}
    \cup {<<"/etc", "krb5cc">>}

\* C12: in every environment the cache paths given to two distinct
\* usernames are distinct, and each is <private-root>/<username>.
C12_CacheIsolation ==
    \A u1 \in DOMAIN ccnames :
        /\ \E root \in PrivateRoots : ccnames[u1] = root \o <<u1>>
        /\ \A u2 \in DOMAIN ccnames : u1 # u2 => ccnames[u1] # ccnames[u2]

====
